---- MODULE Spec2Model ----
(***************************************************************************)
(* Model of the Q Developer translation layer of kiro-gateway              *)
(* (src/kiro/q_api.py): the request builders build_conversation_state and  *)
(* build_generate_assistant_request, the stream event normalizer           *)
(* parse_assistant_response_event and the parser                           *)
(* parse_list_models_response.                                             *)
(*                                                                         *)
(* All four are pure functions.  Each is an operator computed the way the  *)
(* code computes it, and each has a specification whose Init draws the     *)
(* call's input from a bounded set and whose action performs the call and  *)
(* stores what the call did: the value it returned or the exception it     *)
(* raised.                                                                 *)
(*                                                                         *)
(* JSON values are tagged records, so that values of different Python      *)
(* types (None, str, int, dict, list) can stand in the same place and be   *)
(* compared with ==, as the code does.                                     *)
(*                                                                         *)
(* The inputs follow the shapes of the data model: a message, a content    *)
(* part that is a dict, a tool and a listed model are dicts whose fields   *)
(* may each be missing; the text of a part and the function of a tool,     *)
(* when present, are a string and a dict.  The payload under a marker key  *)
(* of a raw event is any JSON value.                                       *)
(***************************************************************************)
EXTENDS Integers, Sequences, FiniteSets, TLC

VARIABLES messages, tools, event_data, response_data, result

vars == <<messages, tools, event_data, response_data, result>>

(***************************************************************************)
(* Bounds of the model.                                                    *)
(***************************************************************************)
\* longest message list given to the request builders
MaxMsgs == 4
\* longest tool list given to build_generate_assistant_request
MaxTools == 2
\* most marker keys carried by one raw stream event
MaxMarkers == 2
\* longest model list of a list-models response
MaxModels == 2

(***************************************************************************)
(* JSON / Python values.                                                   *)
(***************************************************************************)
None == [t |-> "null"]
JStr(s) == [t |-> "str", s |-> s]
JNum(n) == [t |-> "num", n |-> n]
JBool(b) == [t |-> "bool", b |-> b]
JList(l) == [t |-> "list", l |-> l]
\* f is a function from key strings to JSON values; <<>> is the empty dict
JObj(f) == [t |-> "obj", f |-> f]
EmptyDict == JObj(<<>>)

IsDict(v) == v.t = "obj"
IsList(v) == v.t = "list"

\* Python truth value of a JSON value (if x:, x or y)
Truthy(v) ==
  CASE v.t = "null" -> FALSE
    [] v.t = "str"  -> v.s # ""
    [] v.t = "num"  -> v.n # 0
    [] v.t = "bool" -> v.b
    [] v.t = "list" -> v.l # <<>>
    [] v.t = "obj"  -> DOMAIN v.f # {}

\* key in d, for a dict d
HasKey(d, k) == k \in DOMAIN d.f

\* d.get(k, dflt), for a dict d
Get(d, k, dflt) == IF k \in DOMAIN d.f THEN d.f[k] ELSE dflt

\* d[k] = v, for a dict d
SetKey(d, k, v) ==
  JObj([x \in DOMAIN d.f \cup {k} |-> IF x = k THEN v ELSE d.f[x]])

\* what a call did
Pending == [status |-> "pending"]
Returned(v) == [status |-> "returned", value |-> v]
Raised(e) == [status |-> "raised", exc |-> e]

(***************************************************************************)
(* build_conversation_state                                                *)
(***************************************************************************)
RECURSIVE JoinNewline(_)
\* "\n".join(text_parts), text_parts a sequence of str values
JoinNewline(text_parts) ==
  IF text_parts = <<>> THEN ""
  ELSE IF Len(text_parts) = 1 THEN text_parts[1].s
  ELSE text_parts[1].s \o "\n" \o JoinNewline(Tail(text_parts))

RECURSIVE TextParts_AnyType(_)
\* TextParts without the test of the part's type
TextParts_AnyType(parts) ==
  IF parts = <<>> THEN <<>>
  ELSE LET part == parts[1]
       IN IF IsDict(part)
          THEN <<Get(part, "text", JStr(""))>> \o TextParts_AnyType(Tail(parts))
          ELSE TextParts_AnyType(Tail(parts))

RECURSIVE TextParts(_)
\* the text of every dict part with type == "text", "" when it has no text
TextParts(parts) ==
  IF parts = <<>> THEN <<>>
  ELSE LET part == parts[1]
       IN IF IsDict(part) /\ Get(part, "type", None) = JStr("text")
          THEN <<Get(part, "text", JStr(""))>> \o TextParts(Tail(parts))
          ELSE TextParts(Tail(parts))

\* a list content is replaced by its text parts joined with newlines;
\* any other content is kept as it is
FlattenContent(content) ==
  IF IsList(content) THEN JStr(JoinNewline(TextParts(content.l))) ELSE content

UserSettingsContext ==
  JObj([userSettings |-> JObj([hasConsentedToCrossRegionCalls |-> JBool(TRUE)])])

\* the user-input message the builder makes of a flattened content
UserInputMessage(content) ==
  JObj([content |-> content, userInputMessageContext |-> UserSettingsContext])

\* ScanStep without the test that a user message is pending
ScanStep_NoPendingCheck(state, msg) ==
  LET role == Get(msg, "role", JStr("user"))
      content == FlattenContent(Get(msg, "content", JStr("")))
  IN IF role = JStr("system") THEN state
     ELSE IF role = JStr("user")
       THEN [state EXCEPT !.current_message = UserInputMessage(content)]
     ELSE IF role = JStr("assistant")
       THEN [history |->
               Append(state.history,
                      JObj([userInputMessage |-> state.current_message,
                            assistantResponseMessage |->
                              JObj([content |-> content])])),
             current_message |-> None]
     ELSE state

\* ScanStep with a system message clearing the pending user message
ScanStep_SystemClearsPending(state, msg) ==
  LET role == Get(msg, "role", JStr("user"))
      content == FlattenContent(Get(msg, "content", JStr("")))
  IN IF role = JStr("system") THEN [state EXCEPT !.current_message = None]
     ELSE IF role = JStr("user")
       THEN [state EXCEPT !.current_message = UserInputMessage(content)]
     ELSE IF role = JStr("assistant")
       THEN IF Truthy(state.current_message)
            THEN [history |->
                    Append(state.history,
                           JObj([userInputMessage |-> state.current_message,
                                 assistantResponseMessage |->
                                   JObj([content |-> content])])),
                  current_message |-> None]
            ELSE state
     ELSE state

\* one iteration of the scan over messages; state is the pair of locals
\* (history, current_message)
ScanStep(state, msg) ==
  LET role == Get(msg, "role", JStr("user"))
      content == FlattenContent(Get(msg, "content", JStr("")))
  IN IF role = JStr("system") THEN state
     ELSE IF role = JStr("user")
       THEN [state EXCEPT !.current_message = UserInputMessage(content)]
     ELSE IF role = JStr("assistant")
       THEN IF Truthy(state.current_message)
            THEN [history |->
                    Append(state.history,
                           JObj([userInputMessage |-> state.current_message,
                                 assistantResponseMessage |->
                                   JObj([content |-> content])])),
                  current_message |-> None]
            ELSE state
     ELSE state

\* the default of the chat_trigger_type parameter
DefaultChatTriggerType == JStr("MANUAL")

RECURSIVE Scan(_)
\* the locals after the loop over msgs
Scan(msgs) ==
  IF msgs = <<>> THEN [history |-> <<>>, current_message |-> None]
  ELSE ScanStep(Scan(SubSeq(msgs, 1, Len(msgs) - 1)), msgs[Len(msgs)])

RECURSIVE LastUserMessage(_)
\* the backward scan: the message made of the last msg whose role is "user",
\* None when the loop ends without a break
LastUserMessage(msgs) ==
  IF msgs = <<>> THEN None
  ELSE LET msg == msgs[Len(msgs)]
       IN IF Get(msg, "role", None) = JStr("user")
          THEN UserInputMessage(FlattenContent(Get(msg, "content", JStr(""))))
          ELSE LastUserMessage(SubSeq(msgs, 1, Len(msgs) - 1))

build_conversation_state(msgs, conversation_id, chat_trigger_type) ==
  LET s == Scan(msgs)
      st0 == JObj([chatTriggerType |-> chat_trigger_type])
      st1 == IF Truthy(conversation_id)
             THEN SetKey(st0, "conversationId", conversation_id) ELSE st0
      st2 == IF s.history # <<>>
             THEN SetKey(st1, "history", JList(s.history)) ELSE st1
      cur == IF Truthy(s.current_message) THEN s.current_message
             ELSE IF msgs # <<>> THEN LastUserMessage(msgs)
             ELSE None
  IN IF cur # None THEN SetKey(st2, "currentMessage", cur) ELSE st2

(***************************************************************************)
(* build_generate_assistant_request                                        *)
(***************************************************************************)
RECURSIVE ToolSpecs_AllTypes(_)
\* ToolSpecs without the test of the tool's type
ToolSpecs_AllTypes(tool_list) ==
  IF tool_list = <<>> THEN <<>>
  ELSE LET func == Get(tool_list[1], "function", EmptyDict)
       IN <<JObj([name |-> Get(func, "name", JStr("")),
                  description |-> Get(func, "description", JStr("")),
                  inputSchema |-> Get(func, "parameters", EmptyDict)])>>
          \o ToolSpecs_AllTypes(Tail(tool_list))

RECURSIVE ToolSpecs(_)
\* the loop over tools: one spec per tool whose type is "function"
ToolSpecs(tool_list) ==
  IF tool_list = <<>> THEN <<>>
  ELSE LET tool == tool_list[1]
           func == Get(tool, "function", EmptyDict)
       IN IF Get(tool, "type", None) = JStr("function")
          THEN <<JObj([name |-> Get(func, "name", JStr("")),
                       description |-> Get(func, "description", JStr("")),
                       inputSchema |-> Get(func, "parameters", EmptyDict)])>>
               \o ToolSpecs(Tail(tool_list))
          ELSE ToolSpecs(Tail(tool_list))

\* request["conversationState"]["currentMessage"]["userInputMessageContext"]
\* ["tools"] = tool_specs: the subscript of a missing currentMessage raises
\* KeyError
AttachTools(request, tool_specs) ==
  LET cs == request.f.conversationState
  IN IF ~HasKey(cs, "currentMessage") THEN Raised("KeyError")
     ELSE LET cur == cs.f.currentMessage
              ctx == cur.f.userInputMessageContext
          IN Returned(
               SetKey(request, "conversationState",
                 SetKey(cs, "currentMessage",
                   SetKey(cur, "userInputMessageContext",
                     SetKey(ctx, "tools", JList(tool_specs))))))

\* what the call does: Returned(request) or Raised(exception)
build_generate_assistant_request(msgs, conversation_id, agent_mode, tool_arg) ==
  LET r0 == JObj([conversationState |->
                    build_conversation_state(msgs, conversation_id,
                                             DefaultChatTriggerType)])
      r1 == IF agent_mode THEN SetKey(r0, "agentMode", JBool(TRUE)) ELSE r0
  IN IF Truthy(tool_arg)
     THEN LET tool_specs == ToolSpecs(tool_arg.l)
          IN IF tool_specs # <<>> THEN AttachTools(r1, tool_specs)
             ELSE Returned(r1)
     ELSE Returned(r1)

(***************************************************************************)
(* parse_assistant_response_event                                          *)
(***************************************************************************)
\* a or b
PyOr(a, b) == IF Truthy(a) THEN a ELSE b

\* the value of a dict display whose entries call payload.get: calling
\* .get on a payload that is no dict raises AttributeError
Reading(payload, event) ==
  IF IsDict(payload) THEN Returned(event) ELSE Raised("AttributeError")

ParseMessage(msg) ==
  Reading(msg,
    JObj([type |-> JStr("message"),
          message_id |-> Get(msg, "messageId", JStr("")),
          content |-> Get(msg, "content", JStr("")),
          tool_uses |-> Get(msg, "toolUses", JList(<<>>)),
          references |-> Get(msg, "references", JList(<<>>)),
          followup_prompt |-> Get(msg, "followupPrompt", None),
          cache_point |-> Get(msg, "cachePoint", None),
          reasoning_content |-> Get(msg, "reasoningContent", None)]))

ParseToolUse(tool) ==
  Reading(tool,
    JObj([type |-> JStr("tool_use"),
          tool_use_id |-> Get(tool, "toolUseId", JStr("")),
          name |-> Get(tool, "name", JStr("")),
          input |-> Get(tool, "input", EmptyDict)]))

\* meta = event_data.get("metadataEvent") or event_data.get("meteringEvent", {})
MetaPayload(event) ==
  PyOr(Get(event, "metadataEvent", None),
       Get(event, "meteringEvent", EmptyDict))

ParseMetadata(meta) ==
  Reading(meta,
    JObj([type |-> JStr("metadata"),
          conversation_id |-> Get(meta, "conversationId", None),
          utterance_id |-> Get(meta, "utteranceId", None),
          total_tokens |-> Get(meta, "totalTokens", None),
          input_tokens |-> Get(meta, "uncachedInputTokens", None),
          output_tokens |-> Get(meta, "outputTokens", None),
          cache_read_tokens |-> Get(meta, "cacheReadInputTokens", None),
          cache_write_tokens |-> Get(meta, "cacheWriteInputTokens", None)]))

ParseCode(code) ==
  Reading(code,
    JObj([type |-> JStr("code"), content |-> Get(code, "content", JStr(""))]))

ParseFollowup(followup) ==
  Reading(followup,
    JObj([type |-> JStr("followup"),
          content |-> Get(followup, "content", JStr(""))]))

ParseIntents(intents) ==
  Reading(intents,
    JObj([type |-> JStr("intents"),
          intents |-> Get(intents, "intents", JList(<<>>))]))

ParseInvalidState(error) ==
  Reading(error,
    JObj([type |-> JStr("error"),
          reason |-> Get(error, "reason", JStr("Unknown error"))]))

ParseWebLinks(links) ==
  Reading(links,
    JObj([type |-> JStr("web_links"),
          links |-> Get(links, "supplementaryWebLinks", JList(<<>>))]))

ParseUnknown(event) ==
  Returned(JObj([type |-> JStr("unknown"), data |-> event]))

\* the chain of tests with the code event tested before the tool-use event
parse_assistant_response_event_CodeFirst(event) ==
  IF HasKey(event, "assistantResponseMessage")
    THEN ParseMessage(event.f.assistantResponseMessage)
  ELSE IF HasKey(event, "codeEvent")
    THEN ParseCode(event.f.codeEvent)
  ELSE IF HasKey(event, "toolUseEvent")
    THEN ParseToolUse(event.f.toolUseEvent)
  ELSE IF HasKey(event, "metadataEvent") \/ HasKey(event, "meteringEvent")
    THEN ParseMetadata(MetaPayload(event))
  ELSE IF HasKey(event, "followupPromptEvent")
    THEN ParseFollowup(event.f.followupPromptEvent)
  ELSE IF HasKey(event, "intentsEvent")
    THEN ParseIntents(event.f.intentsEvent)
  ELSE IF HasKey(event, "invalidStateEvent")
    THEN ParseInvalidState(event.f.invalidStateEvent)
  ELSE IF HasKey(event, "supplementaryWebLinksEvent")
    THEN ParseWebLinks(event.f.supplementaryWebLinksEvent)
  ELSE ParseUnknown(event)

\* what the call does: Returned(canonical event) or Raised(exception)
parse_assistant_response_event(event) ==
  IF HasKey(event, "assistantResponseMessage")
    THEN ParseMessage(event.f.assistantResponseMessage)
  ELSE IF HasKey(event, "toolUseEvent")
    THEN ParseToolUse(event.f.toolUseEvent)
  ELSE IF HasKey(event, "metadataEvent") \/ HasKey(event, "meteringEvent")
    THEN ParseMetadata(MetaPayload(event))
  ELSE IF HasKey(event, "codeEvent")
    THEN ParseCode(event.f.codeEvent)
  ELSE IF HasKey(event, "followupPromptEvent")
    THEN ParseFollowup(event.f.followupPromptEvent)
  ELSE IF HasKey(event, "intentsEvent")
    THEN ParseIntents(event.f.intentsEvent)
  ELSE IF HasKey(event, "invalidStateEvent")
    THEN ParseInvalidState(event.f.invalidStateEvent)
  ELSE IF HasKey(event, "supplementaryWebLinksEvent")
    THEN ParseWebLinks(event.f.supplementaryWebLinksEvent)
  ELSE ParseUnknown(event)

(***************************************************************************)
(* parse_list_models_response                                              *)
(***************************************************************************)
\* the entry with is_default compared on the defaulted name, as id and name
ModelEntry_DefaultedName(model, default_model) ==
  JObj([id |-> Get(model, "modelName", JStr("")),
        name |-> Get(model, "modelName", JStr("")),
        context_window |-> Get(model, "contextWindowTokens", None),
        rate_multiplier |-> Get(model, "rateMultiplier", None),
        rate_unit |-> Get(model, "rateUnit", None),
        token_limits |-> Get(model, "tokenLimits", EmptyDict),
        supported_input_types |-> Get(model, "supportedInputTypes", JList(<<>>)),
        supports_prompt_cache |-> Get(model, "supportsPromptCache", JBool(FALSE)),
        is_default |->
          JBool(Get(model, "modelName", JStr("")) = default_model)])

\* the entry appended for one model
ModelEntry(model, default_model) ==
  JObj([id |-> Get(model, "modelName", JStr("")),
        name |-> Get(model, "modelName", JStr("")),
        context_window |-> Get(model, "contextWindowTokens", None),
        rate_multiplier |-> Get(model, "rateMultiplier", None),
        rate_unit |-> Get(model, "rateUnit", None),
        token_limits |-> Get(model, "tokenLimits", EmptyDict),
        supported_input_types |-> Get(model, "supportedInputTypes", JList(<<>>)),
        supports_prompt_cache |-> Get(model, "supportsPromptCache", JBool(FALSE)),
        is_default |-> JBool(Get(model, "modelName", None) = default_model)])

\* the list the call returns
parse_list_models_response(response) ==
  LET models == Get(response, "models", JList(<<>>))
      default_model == Get(response, "defaultModel", None)
  IN JList([k \in 1..Len(models.l) |-> ModelEntry(models.l[k], default_model)])

(***************************************************************************)
(* Inputs of the request builders.                                         *)
(***************************************************************************)
\* every sequence over S of length at most n
SeqsUpTo(S, n) == UNION {[1..k -> S] : k \in 0..n}

\* a content that goes through every branch of the flattening
MixedParts ==
  JList(<<JObj([type |-> JStr("text"), text |-> JStr("b")]),
          JObj([type |-> JStr("image_url")]),
          JStr("raw"),
          JObj([type |-> JStr("text")]),
          JObj([type |-> JStr("text"), text |-> JStr("c")])>>)

Contents == {JStr("a"), MixedParts}

Roles == {JStr("user"), JStr("assistant"), JStr("system"), JStr("tool")}

\* messages with and without a role, with and without a content
Msgs ==
  {JObj([role |-> r, content |-> c]) : r \in Roles, c \in Contents}
  \cup {JObj([role |-> r]) : r \in Roles}
  \cup {JObj([content |-> c]) : c \in Contents}
  \cup {EmptyDict}

ConversationIds == {None, JStr(""), JStr("conv-1")}

(***************************************************************************)
(* Specification of build_conversation_state.                              *)
(***************************************************************************)
InitState ==
  /\ messages \in SeqsUpTo(Msgs, MaxMsgs)
  /\ tools = None
  /\ event_data = None
  /\ response_data = None
  /\ result = Pending

BuildConversationState ==
  /\ result = Pending
  /\ \E conversation_id \in ConversationIds :
       result' = Returned(build_conversation_state(messages, conversation_id,
                                                   DefaultChatTriggerType))
  /\ UNCHANGED <<messages, tools, event_data, response_data>>

NextState == BuildConversationState

SpecState == InitState /\ [][NextState]_vars

(***************************************************************************)
(* Specification of build_generate_assistant_request.                      *)
(***************************************************************************)
FullTool ==
  JObj([type |-> JStr("function"),
        function |-> JObj([name |-> JStr("f"),
                           description |-> JStr("d"),
                           parameters |-> JObj([type |-> JStr("object")])])])
\* a function tool that leaves description and parameters out
NameOnlyTool ==
  JObj([type |-> JStr("function"), function |-> JObj([name |-> JStr("g")])])
\* a function tool without its function field
BareTool == JObj([type |-> JStr("function")])
OtherTool ==
  JObj([type |-> JStr("retrieval"),
        function |-> JObj([name |-> JStr("h")])])
UntypedTool == JObj([function |-> JObj([name |-> JStr("k")])])

ToolDefs == {FullTool, NameOnlyTool, BareTool, OtherTool, UntypedTool}

\* tools is absent (None) or a list
ToolArgs == {None} \cup {JList(l) : l \in SeqsUpTo(ToolDefs, MaxTools)}

RequestMsgs ==
  {JObj([role |-> JStr("user"), content |-> JStr("a")]),
   JObj([role |-> JStr("assistant"), content |-> JStr("a")]),
   JObj([content |-> MixedParts])}

InitRequest ==
  /\ messages \in SeqsUpTo(RequestMsgs, MaxMsgs)
  /\ tools \in ToolArgs
  /\ event_data = None
  /\ response_data = None
  /\ result = Pending

BuildGenerateAssistantRequest ==
  /\ result = Pending
  /\ \E agent_mode \in BOOLEAN :
       result' = build_generate_assistant_request(messages, None, agent_mode,
                                                  tools)
  /\ UNCHANGED <<messages, tools, event_data, response_data>>

NextRequest == BuildGenerateAssistantRequest

SpecRequest == InitRequest /\ [][NextRequest]_vars

(***************************************************************************)
(* Specification of parse_assistant_response_event.                        *)
(***************************************************************************)
MarkerKeys ==
  {"assistantResponseMessage", "toolUseEvent", "metadataEvent",
   "meteringEvent", "codeEvent", "followupPromptEvent", "intentsEvent",
   "invalidStateEvent", "supplementaryWebLinksEvent"}

\* a payload with every field the parser reads under that marker
FullPayload(marker) ==
  CASE marker = "assistantResponseMessage" ->
         JObj([messageId |-> JStr("m1"), content |-> JStr("hi"),
               toolUses |-> JList(<<JObj([name |-> JStr("f")])>>),
               references |-> JList(<<JStr("ref")>>),
               followupPrompt |-> JStr("next"),
               cachePoint |-> JBool(TRUE),
               reasoningContent |-> JStr("why")])
    [] marker = "toolUseEvent" ->
         JObj([toolUseId |-> JStr("t1"), name |-> JStr("f"),
               input |-> JObj([x |-> JNum(1)])])
    [] marker = "metadataEvent" ->
         JObj([conversationId |-> JStr("c1"), utteranceId |-> JStr("u1"),
               totalTokens |-> JNum(30), uncachedInputTokens |-> JNum(10),
               outputTokens |-> JNum(20), cacheReadInputTokens |-> JNum(1),
               cacheWriteInputTokens |-> JNum(2)])
    [] marker = "meteringEvent" ->
         JObj([conversationId |-> JStr("c2"), utteranceId |-> JStr("u2"),
               totalTokens |-> JNum(70), uncachedInputTokens |-> JNum(40),
               outputTokens |-> JNum(30), cacheReadInputTokens |-> JNum(3),
               cacheWriteInputTokens |-> JNum(4)])
    [] marker = "codeEvent" -> JObj([content |-> JStr("x = 1")])
    [] marker = "followupPromptEvent" -> JObj([content |-> JStr("more?")])
    [] marker = "intentsEvent" -> JObj([intents |-> JList(<<JStr("i")>>)])
    [] marker = "invalidStateEvent" -> JObj([reason |-> JStr("bad")])
    [] marker = "supplementaryWebLinksEvent" ->
         JObj([supplementaryWebLinks |-> JList(<<JStr("http://l")>>)])

\* a payload with none of the fields the parser reads
ForeignPayload == JObj([other |-> JNum(0)])

PayloadShapes == {"null", "string", "empty", "foreign", "full"}

Payload(marker, shape) ==
  CASE shape = "null" -> None
    [] shape = "string" -> JStr("x")
    [] shape = "empty" -> EmptyDict
    [] shape = "foreign" -> ForeignPayload
    [] shape = "full" -> FullPayload(marker)

\* a key that is no marker
ExtraKey == "requestId"

\* the raw event with the marker keys of shapes, with or without ExtraKey
RawEvent(shapes, extra) ==
  JObj([k \in DOMAIN shapes \cup (IF extra THEN {ExtraKey} ELSE {}) |->
          IF k = ExtraKey THEN JStr("r1") ELSE Payload(k, shapes[k])])

RawEvents ==
  {RawEvent(shapes, extra) :
     shapes \in UNION {[K -> PayloadShapes] :
                         K \in {M \in SUBSET MarkerKeys :
                                  Cardinality(M) <= MaxMarkers}},
     extra \in BOOLEAN}

InitEvent ==
  /\ messages = <<>>
  /\ tools = None
  /\ event_data \in RawEvents
  /\ response_data = None
  /\ result = Pending

ParseAssistantResponseEvent ==
  /\ result = Pending
  /\ result' = parse_assistant_response_event(event_data)
  /\ UNCHANGED <<messages, tools, event_data, response_data>>

NextEvent == ParseAssistantResponseEvent

SpecEvent == InitEvent /\ [][NextEvent]_vars

(***************************************************************************)
(* Specification of parse_list_models_response.                            *)
(***************************************************************************)
\* the fields of a model besides its name
ModelDetails ==
  [contextWindowTokens |-> JNum(200000), rateMultiplier |-> JNum(1),
   rateUnit |-> JStr("credit"),
   tokenLimits |-> JObj([maxInputTokens |-> JNum(200000)]),
   supportedInputTypes |-> JList(<<JStr("TEXT")>>),
   supportsPromptCache |-> JBool(TRUE)]

ModelNames == {JStr("m1"), JStr("m2")}

\* models with and without a name, with and without the other fields
ModelDefs ==
  {JObj([modelName |-> n]) : n \in ModelNames}
  \cup {JObj([modelName |-> n] @@ ModelDetails) : n \in ModelNames}
  \cup {EmptyDict, JObj(ModelDetails)}

\* the default names a listed model, names none, is null or is absent
DefaultModels == {JStr("m1"), JStr("m3"), None}

ListModelsResponses ==
  LET lists == {JList(l) : l \in SeqsUpTo(ModelDefs, MaxModels)}
  IN {JObj([models |-> m, defaultModel |-> d]) :
        m \in lists, d \in DefaultModels}
     \cup {JObj([models |-> m]) : m \in lists}
     \cup {JObj([defaultModel |-> d]) : d \in DefaultModels}
     \cup {EmptyDict}

InitModels ==
  /\ messages = <<>>
  /\ tools = None
  /\ event_data = None
  /\ response_data \in ListModelsResponses
  /\ result = Pending

ParseListModelsResponse ==
  /\ result = Pending
  /\ result' = Returned(parse_list_models_response(response_data))
  /\ UNCHANGED <<messages, tools, event_data, response_data>>

NextModels == ParseListModelsResponse

SpecModels == InitModels /\ [][NextModels]_vars

(***************************************************************************)
(* Vocabulary of the claims about build_conversation_state.                *)
(***************************************************************************)
\* the role the forward scan gives a message: a message without a role
\* field is scanned as a user message
IsScanUser(msg) == ~HasKey(msg, "role") \/ msg.f.role = JStr("user")
IsAssistant(msg) == HasKey(msg, "role") /\ msg.f.role = JStr("assistant")
\* the role the backward scan looks for
IsUserRole(msg) == HasKey(msg, "role") /\ msg.f.role = JStr("user")

\* the flattened content of each message of the input set, written out
ExpectedContent(msg) ==
  IF ~HasKey(msg, "content") THEN JStr("")
  ELSE IF msg.f.content = MixedParts THEN JStr("b\n\nc")
  ELSE msg.f.content

HistoryOf(st) == IF HasKey(st, "history") THEN st.f.history.l ELSE <<>>

HasCurrentMessage(st) == HasKey(st, "currentMessage")

RemoveAt(s, i) == SubSeq(s, 1, i - 1) \o SubSeq(s, i + 1, Len(s))

\* user, assistant, user, assistant, ... starting with user
Alternates(msgs) ==
  /\ Len(msgs) >= 1
  /\ \A i \in 1..Len(msgs) :
       IF i % 2 = 1 THEN IsScanUser(msgs[i]) ELSE IsAssistant(msgs[i])

\* the positions before i that hold a user or an assistant message
TurnPositionsBefore(msgs, i) ==
  {j \in 1..(i - 1) : IsScanUser(msgs[j]) \/ IsAssistant(msgs[j])}

Max(S) == CHOOSE x \in S : \A y \in S : y <= x

\* no unpaired user message is pending when the scan reaches position i:
\* the nearest user or assistant message before i is an assistant message,
\* or there is none
NoPendingAt(msgs, i) ==
  LET before == TurnPositionsBefore(msgs, i)
  IN before = {} \/ IsAssistant(msgs[Max(before)])

ExpectedTurn(user, assistant) ==
  JObj([userInputMessage |->
          JObj([content |-> ExpectedContent(user),
                userInputMessageContext |-> UserSettingsContext]),
        assistantResponseMessage |->
          JObj([content |-> ExpectedContent(assistant)])])

\* C5: for a message list alternating user, assistant, ... from a user
\* message, the history holds one turn per complete (user, assistant) pair,
\* in order, each with the flattened contents of its two messages; a single
\* user message gives no history; and a final unpaired user message is the
\* currentMessage, with its flattened content.
C5_AlternatingPairs ==
  (result.status # "pending" /\ Alternates(messages)) =>
    /\ result.status = "returned"
    /\ LET st == result.value
           hist == HistoryOf(st)
           n == Len(messages)
       IN /\ Len(hist) = n \div 2
          /\ \A k \in 1..Len(hist) :
               hist[k] = ExpectedTurn(messages[2 * k - 1], messages[2 * k])
          /\ n = 1 => ~HasKey(st, "history")
          /\ n % 2 = 1 =>
               /\ HasCurrentMessage(st)
               /\ st.f.currentMessage =
                    JObj([content |-> ExpectedContent(messages[n]),
                          userInputMessageContext |-> UserSettingsContext])

\* a user message with parts, its reply, and a last unpaired user message
\* with parts have been built into one turn and a currentMessage
C5_Witness ==
  /\ result.status = "returned"
  /\ Alternates(messages)
  /\ Len(messages) = 3
  /\ messages[1] = JObj([role |-> JStr("user"), content |-> MixedParts])
  /\ messages[3] = JObj([role |-> JStr("user"), content |-> MixedParts])
  /\ Len(HistoryOf(result.value)) = 1
  /\ HasCurrentMessage(result.value)

\* C6: an assistant message reached while no user message is pending emits
\* no turn and raises nothing: the history is that of the list without it.
C6_OrphanAssistantDropped ==
  result.status # "pending" =>
    /\ result.status = "returned"
    /\ \A i \in 1..Len(messages) :
         (IsAssistant(messages[i]) /\ NoPendingAt(messages, i)) =>
           HistoryOf(result.value) =
             HistoryOf(build_conversation_state(RemoveAt(messages, i), None,
                                                DefaultChatTriggerType))

\* an assistant message directly after another one, in a list that also
\* yields a turn
C6_Witness ==
  /\ result.status = "returned"
  /\ Len(messages) = 3
  /\ IsScanUser(messages[1])
  /\ IsAssistant(messages[2])
  /\ IsAssistant(messages[3])
  /\ NoPendingAt(messages, 3)
  /\ Len(HistoryOf(result.value)) = 1

\* C9: currentMessage is absent exactly when the list holds no message the
\* scan treats as a user message; so a non-empty history always comes with
\* a currentMessage.
C9_CurrentMessageIffUser ==
  result.status = "returned" =>
    /\ ~HasCurrentMessage(result.value) <=>
         (\A i \in 1..Len(messages) : ~IsScanUser(messages[i]))
    /\ HistoryOf(result.value) # <<>> => HasCurrentMessage(result.value)

\* the last message with role "user", 0 when there is none
LastUserRolePosition(msgs) ==
  LET us == {i \in 1..Len(msgs) : IsUserRole(msgs[i])}
  IN IF us = {} THEN 0 ELSE Max(us)

\* the user message at position i was paired into a turn: the nearest user
\* or assistant message after it is an assistant message
PairedAt(msgs, i) ==
  LET after == {j \in (i + 1)..Len(msgs) :
                  IsScanUser(msgs[j]) \/ IsAssistant(msgs[j])}
  IN after # {} /\ IsAssistant(msgs[CHOOSE j \in after : \A k \in after : j <= k])

\* a user message is still pending after the scan: the last user or
\* assistant message of the list is a user message
PendingAtEnd(msgs) == ~NoPendingAt(msgs, Len(msgs) + 1)

\* C10: a user message still pending after the scan is the currentMessage;
\* otherwise currentMessage is made of the last message with role "user",
\* so that, when that message was already paired, currentMessage's content
\* is the user content of the last history turn.
C10_ResynthesizedFromLastTurn ==
  result.status = "returned" =>
    LET st == result.value
        hist == HistoryOf(st)
        last == LastUserRolePosition(messages)
        pending == Max(TurnPositionsBefore(messages, Len(messages) + 1))
    IN /\ PendingAtEnd(messages) =>
            /\ HasCurrentMessage(st)
            /\ st.f.currentMessage.f.content = ExpectedContent(messages[pending])
       /\ (~PendingAtEnd(messages) /\ last # 0) =>
            /\ HasCurrentMessage(st)
            /\ st.f.currentMessage.f.content = ExpectedContent(messages[last])
       /\ (~PendingAtEnd(messages) /\ last # 0 /\ PairedAt(messages, last)) =>
            /\ hist # <<>>
            /\ st.f.currentMessage.f.content =
                 hist[Len(hist)].f.userInputMessage.f.content

\* the conversation id the call was given, read back from its output
GivenConversationId(st) == Get(st, "conversationId", None)

\* the contents the output carries as user content: those of the history
\* turns and that of currentMessage
UserContentsOf(st) ==
  {HistoryOf(st)[k].f.userInputMessage.f.content : k \in 1..Len(HistoryOf(st))}
  \cup (IF HasCurrentMessage(st) THEN {st.f.currentMessage.f.content} ELSE {})

\* C11: a user message that arrives while an earlier user message is still
\* unpaired overwrites it: the output is that of the list without the
\* earlier message, which gets no turn and whose content (when no other
\* message has it) appears nowhere in the output.
C11_UnpairedUserOverwritten ==
  result.status = "returned" =>
    \A j \in 1..Len(messages) :
      (IsScanUser(messages[j]) /\ ~NoPendingAt(messages, j)) =>
        LET i == Max(TurnPositionsBefore(messages, j))
            st == result.value
        IN /\ st = build_conversation_state(RemoveAt(messages, i),
                                            GivenConversationId(st),
                                            DefaultChatTriggerType)
           /\ (\A k \in 1..Len(messages) :
                 k # i => ExpectedContent(messages[k]) # ExpectedContent(messages[i]))
                => ExpectedContent(messages[i]) \notin UserContentsOf(st)

IsSystem(msg) == HasKey(msg, "role") /\ msg.f.role = JStr("system")

NotSystem(msg) == ~IsSystem(msg)

IsFunctionTool(tool) == HasKey(tool, "type") /\ tool.f.type = JStr("function")

\* the tools argument as a sequence: absent counts as empty
ToolsGiven == IF tools = None THEN <<>> ELSE tools.l

FunctionTools == SelectSeq(ToolsGiven, IsFunctionTool)

\* the message list yields a currentMessage: a user message is pending at
\* the end, or some message has role "user"
YieldsCurrentMessage(msgs) ==
  PendingAtEnd(msgs) \/ LastUserRolePosition(msgs) # 0

\* the tools field of the request's currentMessage context, None if absent
AttachedTools(request) ==
  LET cs == request.f.conversationState
  IN IF ~HasKey(cs, "currentMessage") THEN None
     ELSE Get(cs.f.currentMessage.f.userInputMessageContext, "tools", None)

\* C1: with at least one function tool supplied and no currentMessage
\* built, the call returns a request without tools and raises nothing.
C1_ToolsDroppedWithoutCurrentMessage ==
  (/\ result.status # "pending"
   /\ FunctionTools # <<>>
   /\ ~YieldsCurrentMessage(messages)) =>
    /\ result.status = "returned"
    /\ AttachedTools(result.value) = None

\* the spec entry of a function tool, field by field
ExpectedSpec(tool) ==
  LET has == HasKey(tool, "function")
  IN JObj([name |->
             IF has /\ HasKey(tool.f.function, "name")
             THEN tool.f.function.f.name ELSE JStr(""),
           description |->
             IF has /\ HasKey(tool.f.function, "description")
             THEN tool.f.function.f.description ELSE JStr(""),
           inputSchema |->
             IF has /\ HasKey(tool.f.function, "parameters")
             THEN tool.f.function.f.parameters ELSE EmptyDict])

\* C7: on a message list that yields a currentMessage, the attached tools
\* are one {name, description, inputSchema} entry per function-typed tool,
\* in input order, and nothing for the other tools; with no function-typed
\* tool (tools absent, empty or all of other types) the context has no
\* tools field.
C7_FunctionToolsAttached ==
  (result.status # "pending" /\ YieldsCurrentMessage(messages)) =>
    /\ result.status = "returned"
    /\ LET attached == AttachedTools(result.value)
       IN IF FunctionTools = <<>> THEN attached = None
          ELSE /\ attached # None
               /\ Len(attached.l) = Len(FunctionTools)
               /\ \A k \in 1..Len(FunctionTools) :
                    attached.l[k] = ExpectedSpec(FunctionTools[k])

\* a tool of another type followed by a function tool: one entry attached
C7_Witness ==
  /\ result.status = "returned"
  /\ YieldsCurrentMessage(messages)
  /\ tools = JList(<<OtherTool, FullTool>>)
  /\ AttachedTools(result.value) # None
  /\ Len(AttachedTools(result.value).l) = 1

(***************************************************************************)
(* Claims about parse_assistant_response_event.                            *)
(***************************************************************************)
CanonicalKinds ==
  {"message", "tool_use", "metadata", "code", "followup", "intents", "error",
   "web_links", "unknown"}

\* C2: the parser is total: whatever the raw event, also with a marker whose
\* value is null, no object, empty or partly filled, it returns one
\* canonical event and raises nothing.
C2_ParserTotal ==
  result.status # "pending" =>
    /\ result.status = "returned"
    /\ result.value.f.type.s \in CanonicalKinds

\* the marker keys in the order of the parser's tests, with their kinds
MarkerPriority ==
  <<"assistantResponseMessage", "toolUseEvent", "metadataEvent",
    "meteringEvent", "codeEvent", "followupPromptEvent", "intentsEvent",
    "invalidStateEvent", "supplementaryWebLinksEvent">>

KindOfMarker ==
  [assistantResponseMessage |-> "message", toolUseEvent |-> "tool_use",
   metadataEvent |-> "metadata", meteringEvent |-> "metadata",
   codeEvent |-> "code", followupPromptEvent |-> "followup",
   intentsEvent |-> "intents", invalidStateEvent |-> "error",
   supplementaryWebLinksEvent |-> "web_links"]

MarkersPresent(event) ==
  {i \in 1..Len(MarkerPriority) : HasKey(event, MarkerPriority[i])}

\* the kind the first marker present stands for, unknown without a marker
KindByPriority(event) ==
  LET present == MarkersPresent(event)
  IN IF present = {} THEN "unknown"
     ELSE KindOfMarker[MarkerPriority[
            CHOOSE i \in present : \A j \in present : i <= j]]

\* C3: the kind returned is that of the first marker key present, in the
\* fixed priority order, also with several markers; the kind is unknown
\* exactly when the event has none of the nine marker keys, and then data
\* is the raw event.
C3_KindByPriority ==
  result.status # "pending" =>
    /\ result.status = "returned" =>
         result.value.f.type = JStr(KindByPriority(event_data))
    /\ (result.status = "returned" /\ result.value.f.type = JStr("unknown"))
         <=> MarkersPresent(event_data) = {}
    /\ MarkersPresent(event_data) = {} =>
         /\ result.status = "returned"
         /\ DOMAIN result.value.f = {"type", "data"}
         /\ result.value.f.data = event_data

\* an event with the tool-use and the code marker was parsed as tool_use
C3_Witness ==
  /\ result.status = "returned"
  /\ HasKey(event_data, "toolUseEvent")
  /\ HasKey(event_data, "codeEvent")
  /\ result.value.f.type = JStr("tool_use")

MetadataFields ==
  [conversation_id |-> "conversationId", utterance_id |-> "utteranceId",
   total_tokens |-> "totalTokens", input_tokens |-> "uncachedInputTokens",
   output_tokens |-> "outputTokens",
   cache_read_tokens |-> "cacheReadInputTokens",
   cache_write_tokens |-> "cacheWriteInputTokens"]

\* C4: with both a metadataEvent and a meteringEvent marker, every field of
\* the metadata event is read from the metadataEvent payload, whatever that
\* payload, the empty object included (stated for payloads that are
\* objects, where every field can be read).
C4_MetadataPreferred ==
  (/\ result.status # "pending"
   /\ HasKey(event_data, "metadataEvent")
   /\ HasKey(event_data, "meteringEvent")
   /\ IsDict(event_data.f.metadataEvent)
   /\ IsDict(event_data.f.meteringEvent)) =>
    /\ result.status = "returned"
    /\ result.value.f.type = JStr("metadata")
    /\ \A field \in DOMAIN MetadataFields :
         result.value.f[field] =
           Get(event_data.f.metadataEvent, MetadataFields[field], None)

(***************************************************************************)
(* Claims about parse_list_models_response.                                *)
(***************************************************************************)
ListedModels ==
  IF HasKey(response_data, "models") THEN response_data.f.models.l ELSE <<>>

\* the response's defaultModel and a model's modelName, null when absent
DeclaredDefault ==
  IF HasKey(response_data, "defaultModel") THEN response_data.f.defaultModel
  ELSE None
NameOf(model) == IF HasKey(model, "modelName") THEN model.f.modelName ELSE None

FlaggedDefault(entries) ==
  {k \in 1..Len(entries) : entries[k].f.is_default = JBool(TRUE)}

\* C8: exactly one model of the returned list is flagged is_default, the one
\* whose modelName equals the response's defaultModel (stated for responses
\* that list at least one model).
C8_ExactlyOneDefault ==
  (result.status = "returned" /\ ListedModels # <<>>) =>
    LET entries == result.value.l
    IN /\ Cardinality(FlaggedDefault(entries)) = 1
       /\ \A k \in FlaggedDefault(entries) :
            NameOf(ListedModels[k]) = DeclaredDefault

\* C8 as amended: a model is flagged is_default exactly when its modelName
\* equals the response's defaultModel, an absent name and an absent default
\* counting as null; so as many models are flagged as bear the default's
\* name: one when exactly one listed model has it.
C8_DefaultByNameEquality ==
  result.status = "returned" =>
    LET entries == result.value.l
        named == {k \in 1..Len(ListedModels) :
                    NameOf(ListedModels[k]) = DeclaredDefault}
    IN /\ Len(entries) = Len(ListedModels)
       /\ FlaggedDefault(entries) = named
       /\ \A k \in 1..Len(entries) :
            entries[k].f.is_default \in {JBool(TRUE), JBool(FALSE)}
       /\ Cardinality(named) = 1 => Cardinality(FlaggedDefault(entries)) = 1

\* two listed models share the default's name and both are flagged
C8_Witness ==
  /\ result.status = "returned"
  /\ Len(ListedModels) = 2
  /\ DeclaredDefault = JStr("m1")
  /\ NameOf(ListedModels[1]) = JStr("m1")
  /\ NameOf(ListedModels[2]) = JStr("m1")
  /\ Cardinality(FlaggedDefault(result.value.l)) = 2

====
